---- MODULE Spec2Model ----
(***************************************************************************)
(* Session orchestration of aitofy-dev/browser-profiles:                   *)
(*   src/src/integrations/playwright.ts  launchChrome, the lock file        *)
(*       protocol, the module-level runningBrowsers registry, closeBrowser  *)
(*   src/src/profile-manager.ts          BrowserProfiles.launch             *)
(* Every OS process has its own registry and its own proxy-chain servers;  *)
(* the lock file, the browser processes and the ports belong to the host.  *)
(* One asynchronous call is a task; a task's step is the code between two  *)
(* awaits.                                                                  *)
(***************************************************************************)
EXTENDS Integers, Sequences, FiniteSets, TLC

\* ---------------------------------------------------------------- bounds
MaxCalls == 3      \* operations started in a behaviour
MaxSpawn == 2      \* browser processes spawned in a behaviour
MaxFaults == 1     \* crashes, rejected kills and failed lock file writes in a behaviour
MaxCookies == 2    \* cookies stored in a profile
MaxClock == 4      \* the last value of Date.now() in a behaviour

\* ------------------------------------------------------ program constants
cdpMaxRetries == 10
maxRetries == 10
NConfigSteps == 4  \* Network.enable, setUserAgentOverride, addScript, setTimezoneOverride

\* ------------------------------------------------------------ the universe
Profiles == {"p1", "p2"}
OSProcs == {"A", "B"}
Tasks == {1, 2}
Ports == {1, 2}

\* The calls that may be in flight: tasks 1 and 2, one in each OS process, and
\* task 3, a second async call inside the process of task 1.
Callers == {1, 2, 3}
Overlapping == {1, 3}

\* The OS process (Node.js process) a task runs in.
ProcOf(t) == IF t = 2 THEN "B" ELSE "A"


NoEndpoint == [port |-> 0, guid |-> 0]
NoLock == [pid |-> 0, port |-> 0, wsEndpoint |-> NoEndpoint, proxyUrl |-> 0]
NoEntry == [process |-> 0, proxyUrl |-> 0]
NoHandle ==
  [os |-> "", kind |-> "none", profileId |-> "", pid |-> 0, port |-> 0,
   wsEndpoint |-> NoEndpoint, proxyUrl |-> 0]
NoExisting == [wsEndpoint |-> NoEndpoint, pid |-> 0, port |-> 0]

IdleTask ==
  [op |-> "idle", pc |-> "idle", profile |-> "", lockInfo |-> NoLock,
   existing |-> NoExisting, proxyUrl |-> 0, chrome |-> 0, i |-> 0,
   h |-> NoHandle, prev |-> NoHandle, res |-> NoHandle, err |-> "",
   killRejected |-> FALSE, log |-> << >>, last |-> "", cookieLog |-> << >>,
   ret |-> "", steps |-> << >>, thrown |-> [name |-> "", message |-> ""],
   wrap |-> FALSE, retry |-> 0, first |-> NoHandle]

VARIABLES
  lockFile,         \* [profile -> .browser-lock.json of its data directory, or NoLock]
  spawned,          \* the browser processes ever spawned; a pid is an index
  alive,            \* the pids of the browser processes still running
  leases,           \* the proxy-chain servers ever created; a url is an index
  runningBrowsers,  \* [OS process -> [profile -> entry of the module-level Map]]
  bpRunning,        \* [OS process -> [profile -> handle kept by BrowserProfiles]]
  handles,          \* the LaunchResults returned to callers
  tk,               \* [task -> the call it is executing]
  calls,            \* operations started so far
  closed,           \* the handles whose close() has run through all its steps
  faults,           \* crashes, rejected kills and failed lock file writes so far
  proxied,          \* the stored profiles that specify an upstream proxy
  hung,             \* the pids of the browser processes that no longer answer
  tzRun,            \* the timezone of one launch: its inputs and what it sets
  store,            \* the config.json files of BrowserProfiles, and its last call
  sessions          \* the sessions withPuppeteer has returned, in order

vars ==
  <<lockFile, spawned, alive, leases, runningBrowsers, bpRunning, handles, tk,
    calls, closed, faults, proxied, hung, tzRun, store, sessions>>

\* What the steps of launchChrome and of close() never write.
aside == <<proxied, hung, tzRun, store, sessions>>

\* What the launches and the closes work on.
orchestration ==
  <<lockFile, spawned, alive, leases, runningBrowsers, bpRunning, handles, tk,
    calls, closed, faults, proxied, hung>>

\* profile.proxy of the stored profile is set.
HasProxy(p) == p \in proxied

\* Nothing runs and nothing is on disk but the stored profiles.
NothingRunning ==
  /\ lockFile = [p \in Profiles |-> NoLock]
  /\ spawned = << >>
  /\ alive = {}
  /\ leases = << >>
  /\ runningBrowsers = [o \in OSProcs |-> [p \in Profiles |-> NoEntry]]
  /\ bpRunning = [o \in OSProcs |-> [p \in Profiles |-> NoHandle]]
  /\ handles = {}
  /\ tk = [t \in Callers |-> IdleTask]
  /\ calls = 0
  /\ closed = {}
  /\ faults = 0
  /\ hung = {}

\* IANA timezone names; "" stands for undefined (profile.timezone not set) and
\* for null (detectTimezoneFromIP found nothing).
Zones == {"America/New_York", "Europe/Berlin", "Asia/Tokyo"}

\* No launch is traced for its timezone.
TimezoneAtRest ==
  tzRun = [timezone |-> "", proxy |-> FALSE, lookup |-> "", system |-> "",
           pc |-> "idle", TZ |-> "", override |-> "", via |-> "", given |-> ""]

\* No config.json (get returns null for every id).
NoProfile == [id |-> "", name |-> "", createdAt |-> 0, updatedAt |-> 0]

\* An updates object without any of the fields.
NoUpdates == [id |-> "", name |-> "", createdAt |-> 0]

\* The profile store is not looked at: no file, no call.
StoreAtRest ==
  store = [files |-> [id \in Profiles |-> NoProfile], now |-> 1,
           last |-> [op |-> "", profileId |-> "", updates |-> NoUpdates,
                     ret |-> NoProfile]]

\* No Puppeteer session has been opened.
NoSessions == sessions = << >>

\* Profile p1 has an upstream proxy, p2 none.
Init ==
  NothingRunning /\ proxied = {"p1"} /\ TimezoneAtRest /\ StoreAtRest /\ NoSessions

\* Both profiles have an upstream proxy.
InitAllProxied ==
  NothingRunning /\ proxied = Profiles /\ TimezoneAtRest /\ StoreAtRest /\ NoSessions


\* ------------------------------------------------------- lock file protocol
\* A .browser-lock.json that cannot be read, or whose text JSON.parse rejects.
Unreadable == [pid |-> -1, port |-> 0, wsEndpoint |-> NoEndpoint, proxyUrl |-> 0]

\* A .browser-lock.json that parses to an object without the fields of a
\* BrowserLockInfo: its port is undefined, nothing answers there.
Malformed == [pid |-> -2, port |-> 0, wsEndpoint |-> NoEndpoint, proxyUrl |-> 0]

\* A readLockFile that hands on whatever the file holds (what C22 must rule
\* out).
readLockFile_Raw(p) == lockFile[p]

\* readLockFile: the parsed .browser-lock.json of the profile's data directory;
\* null when the file is absent or when reading or parsing it throws.
readLockFile(p) == IF lockFile[p] = Unreadable THEN NoLock ELSE lockFile[p]

\* writeLockFile: the file written, or left as it was when the write fails
\* (the error is swallowed).
writeLockFile(lf, p, info, written) ==
  IF written THEN [lf EXCEPT ![p] = info] ELSE lf

\* A deleteLockFile that leaves the file in place (what C3 must rule out).
deleteLockFile_Kept(lf, p) == lf

\* deleteLockFile: unlink if the file exists.
deleteLockFile(lf, p) == [lf EXCEPT ![p] = NoLock]

\* isProcessRunning: process.kill(pid, 0) succeeds.
isProcessRunning(pid) == pid \in alive

\* Browser b runs but answers nothing: it accepts connections on its debugging
\* port and never replies.
Stalls(b) == b \in alive /\ b \in hung

\* The browser processes that answer on a debugging port. A request to a
\* stalled browser fails: the probe of tryConnectExisting is aborted after
\* 2000 ms, and the fetch of the discovery loop is given up by the platform.
Listening(port) == {b \in alive : spawned[b].port = port /\ ~Stalls(b)}

\* webSocketDebuggerUrl of browser b: ws://localhost:<port>/devtools/browser/<guid>.
Endpoint(b) == [port |-> spawned[b].port, guid |-> b]

\* The body of GET http://localhost:<port>/json/version, NoEndpoint when nothing
\* answers.
VersionInfo(port) ==
  IF Listening(port) = {} THEN NoEndpoint
  ELSE Endpoint(CHOOSE b \in Listening(port) : TRUE)

\* A tryConnectExisting that trusts the lock file without probing its port
\* (what C12 must rule out).
tryConnectExisting_Unprobed(lockInfo) ==
  [wsEndpoint |-> lockInfo.wsEndpoint, pid |-> lockInfo.pid, port |-> lockInfo.port]

\* A tryConnectExisting that hands back the endpoint stored in the lock file
\* instead of the probed one (what C10 must rule out).
tryConnectExisting_Stored(lockInfo) ==
  IF VersionInfo(lockInfo.port) = NoEndpoint THEN NoExisting
  ELSE [wsEndpoint |-> lockInfo.wsEndpoint, pid |-> lockInfo.pid,
        port |-> lockInfo.port]

\* tryConnectExisting: the endpoint the browser reports now, with the lock
\* file's pid and port; NoExisting (null) when the probe fails.
tryConnectExisting(lockInfo) ==
  IF VersionInfo(lockInfo.port) = NoEndpoint THEN NoExisting
  ELSE [wsEndpoint |-> VersionInfo(lockInfo.port), pid |-> lockInfo.pid,
        port |-> lockInfo.port]

\* getRunningBrowsers called in OS process o: the keys of its runningBrowsers.
getRunningBrowsers(o) == {p \in Profiles : runningBrowsers[o][p] # NoEntry}

\* ------------------------------------------------------------ proxy leases
\* An anonymizeProxy that hands out the server that is already there (what C16
\* must rule out).
anonymizeProxy_Shared(ls, o) ==
  IF ls = << >> THEN Append(ls, [os |-> o, open |-> TRUE]) ELSE ls

\* proxyChain.anonymizeProxy(proxyUrl) called in OS process o: a new local
\* forwarding server on a port of its own; its url is the index of the lease.
anonymizeProxy(ls, o) == Append(ls, [os |-> o, open |-> TRUE])

\* A closeAnonymizedProxy that leaves the server running (what C14 must rule
\* out).
closeAnonymizedProxy_Leak(ls, o, url) == ls

\* proxyChain.closeAnonymizedProxy(url, true) called in OS process o: closes the
\* server when this process runs it; otherwise it finds no server and does
\* nothing. Its rejection is swallowed by .catch.
closeAnonymizedProxy(ls, o, url) ==
  IF url \in DOMAIN ls /\ ls[url].os = o
    THEN [ls EXCEPT ![url].open = FALSE]
    ELSE ls

OpenLeases == {u \in DOMAIN leases : leases[u].open}

\* A port no running browser listens on (chrome-launcher picks a free port).
FreePorts == Ports \ {spawned[b].port : b \in alive}

\* ---------------------------------------------------------------- handles
\* The LaunchResult of the REUSE path (lines 624-630) and its close closure's
\* captures: existing.pid and lockInfo.proxyUrl.
ReuseHandle(o, p, existing, lockInfo) ==
  [os |-> o, kind |-> "reuse", profileId |-> p, pid |-> existing.pid,
   port |-> existing.port, wsEndpoint |-> existing.wsEndpoint,
   proxyUrl |-> lockInfo.proxyUrl]

\* The LaunchResult of a fresh launch (lines 949-955) and its close closure's
\* captures: chromeProcess and anonymizedProxyUrl.
LaunchHandle(o, p, pid, ws, proxyUrl) ==
  [os |-> o, kind |-> "launch", profileId |-> p, pid |-> pid,
   port |-> spawned[pid].port, wsEndpoint |-> ws, proxyUrl |-> proxyUrl]

\* The first step of handle.close(): the fresh closure starts with
\* client.close(), the reuse closure is one synchronous block.
FirstCloseStep(h) == IF h.kind = "launch" THEN "c_cdp" ELSE "r_close"

Settled(t) == tk[t].pc \in {"idle", "done", "failed"}

\* ------------------------------------------------------ starting operations
\* A caller calls launchChrome({profile, userDataDir}).
BeginLaunchChrome(t, p) ==
  /\ Settled(t)
  /\ calls < MaxCalls
  /\ tk' = [tk EXCEPT ![t] =
              [IdleTask EXCEPT !.op = "launchChrome", !.pc = "start", !.profile = p]]
  /\ calls' = calls + 1
  /\ UNCHANGED <<lockFile, spawned, alive, leases, runningBrowsers, bpRunning,
                 handles, closed, faults>>
  /\ UNCHANGED aside

\* A caller calls BrowserProfiles.launch(profileId): a browser this instance
\* tracks for the profile is closed first, then launchChrome is called.
BeginBpLaunch(t, p) ==
  /\ Settled(t)
  /\ calls < MaxCalls
  /\ LET prev == bpRunning[ProcOf(t)][p] IN
       tk' = [tk EXCEPT ![t] =
                [IdleTask EXCEPT !.op = "bpLaunch", !.profile = p, !.prev = prev,
                   !.h = prev,
                   !.pc = IF prev = NoHandle THEN "start" ELSE FirstCloseStep(prev)]]
  /\ calls' = calls + 1
  /\ UNCHANGED <<lockFile, spawned, alive, leases, runningBrowsers, bpRunning,
                 handles, closed, faults>>
  /\ UNCHANGED aside

\* A caller calls close() of a LaunchResult it holds.
BeginClose(t, h) ==
  /\ Settled(t)
  /\ calls < MaxCalls
  /\ h \in handles
  /\ h.os = ProcOf(t)
  /\ tk' = [tk EXCEPT ![t] =
              [IdleTask EXCEPT !.op = "close", !.profile = h.profileId, !.h = h,
                 !.pc = FirstCloseStep(h)]]
  /\ calls' = calls + 1
  /\ UNCHANGED <<lockFile, spawned, alive, leases, runningBrowsers, bpRunning,
                 handles, closed, faults>>
  /\ UNCHANGED aside

\* ------------------------------------------------------ how a call ends
\* The locals a finished call no longer reads (lockInfo, existing, the loop
\* counter) die with it; chromeProcess and anonymizedProxyUrl stay on record.
Ended(rec) ==
  [rec EXCEPT !.lockInfo = NoLock, !.existing = NoExisting, !.i = 0,
              !.last = "", !.cookieLog = << >>, !.steps = << >>]

\* The error object a failing stage of launchChrome throws: an Error made on
\* the spot with its message (lines 513, 713, 907), or the library's rejection
\* handed on as it came (lines 775, 799, and the CDP commands, which no try
\* block surrounds).
ErrorOf(stage) ==
  CASE stage = "ChromeNotFound" ->
         [name |-> "Error", message |-> "Chrome/Chromium not found"]
    [] stage = "ProxyError" ->
         [name |-> "Error", message |-> "Failed to configure proxy"]
    [] stage = "EndpointDiscoveryFailed" ->
         [name |-> "Error", message |-> "Failed to get browser WebSocket endpoint"]
    [] OTHER ->
         [name |-> "Error", message |-> "connect ECONNREFUSED"]

\* launchChrome returns its LaunchResult; BrowserProfiles.launch then tracks it
\* in its own map (profile-manager.ts line 298) and returns it too. Inside
\* withPuppeteer the call goes on to puppeteer.connect.
Return(t, rec, h) ==
  /\ tk' = [tk EXCEPT ![t] =
              [Ended(rec) EXCEPT !.pc = IF rec.wrap THEN "connect" ELSE "done",
                                 !.res = h]]
  /\ handles' = handles \cup {h}
  /\ bpRunning' =
       IF rec.op = "bpLaunch"
         THEN [bpRunning EXCEPT ![ProcOf(t)][rec.profile] = h]
         ELSE bpRunning

\* The call rejects: the error reaches the caller.
Throw(rec, err) ==
  [Ended(rec) EXCEPT !.pc = "failed", !.err = err, !.thrown = ErrorOf(err)]

\* The steps of the launch path a call has carried out so far, in order.
Stepped(rec, done) == [rec EXCEPT !.steps = rec.steps \o done]

\* A launch path that skips the proxy setup (what C13 must rule out).
AfterLockCheck_NoProxy(rec, found) ==
  IF ~found THEN Throw(rec, "ChromeNotFound")
  ELSE [Stepped(rec, <<"singleton", "chromePath">>) EXCEPT !.pc = "spawn"]

\* Lines 638-715 up to the first await: the Singleton* files are removed, then
\* getChromePath resolves the executable or throws, then the proxy is set up
\* when the profile has one.
AfterLockCheck(rec, found) ==
  IF ~found THEN Throw(rec, "ChromeNotFound")
  ELSE [Stepped(rec, <<"singleton", "chromePath">>) EXCEPT
          !.pc = IF HasProxy(rec.profile) THEN "proxy" ELSE "spawn"]

\* An environment fault happens in the step (fault), within the bound.
Faulty(fault) ==
  /\ fault => faults < MaxFaults
  /\ faults' = IF fault THEN faults + 1 ELSE faults

\* The cleanup of lines 793-798 and 901-906:
\*   try { await chromeProcess.kill(); if (url) await close(url) } catch { }
\* kill() of a running process succeeds (killOk) or rejects and leaves it.
KillRejects(pid, killOk) == pid \in alive /\ ~killOk

\* A rollback that never terminates the process (what C4 must rule out).
AfterKill_Noop(pid, killOk) == alive

AfterKill(pid, killOk) == IF killOk THEN alive \ {pid} ELSE alive

RollbackLeases(o, pid, url, killOk) ==
  IF KillRejects(pid, killOk) THEN leases
  ELSE closeAnonymizedProxy(leases, o, url)

\* ------------------------------------------------------------ launchChrome
\* Lines 594-601: loadDependencies, readLockFile; with no lock file the launch
\* path starts at once.
LaunchStart(t) ==
  /\ tk[t].pc = "start"
  /\ \E found \in BOOLEAN :
       LET lockInfo == readLockFile(tk[t].profile) IN
         tk' = [tk EXCEPT ![t] =
                  IF lockInfo # NoLock
                    THEN [tk[t] EXCEPT !.pc = "probe", !.lockInfo = lockInfo]
                    ELSE AfterLockCheck(tk[t], found)]
  /\ UNCHANGED <<lockFile, spawned, alive, leases, runningBrowsers, bpRunning,
                 handles, calls, closed, faults>>
  /\ UNCHANGED aside

\* Line 602: await tryConnectExisting(lockInfo).
Probe(t) ==
  /\ tk[t].pc = "probe"
  /\ tk' = [tk EXCEPT ![t] =
              [tk[t] EXCEPT !.pc = "probed",
                            !.existing = tryConnectExisting(tk[t].lockInfo)]]
  /\ UNCHANGED <<lockFile, spawned, alive, leases, runningBrowsers, bpRunning,
                 handles, calls, closed, faults>>
  /\ UNCHANGED aside

\* Lines 603-630: the probe answered; the existing browser's handle is returned.
Reuse(t) ==
  /\ tk[t].pc = "probed"
  /\ tk[t].existing # NoExisting
  /\ Return(t, tk[t],
            ReuseHandle(ProcOf(t), tk[t].profile, tk[t].existing, tk[t].lockInfo))
  /\ UNCHANGED <<lockFile, spawned, alive, leases, runningBrowsers, calls,
                 closed, faults>>
  /\ UNCHANGED aside

\* Lines 631-635: the probe failed; the stale lock file is deleted and the
\* launch path starts.
StaleCleanup(t) ==
  /\ tk[t].pc = "probed"
  /\ tk[t].existing = NoExisting
  /\ lockFile' = deleteLockFile(lockFile, tk[t].profile)
  /\ \E found \in BOOLEAN : tk' = [tk EXCEPT ![t] = AfterLockCheck(tk[t], found)]
  /\ UNCHANGED <<spawned, alive, leases, runningBrowsers, bpRunning,
                 handles, calls, closed, faults>>
  /\ UNCHANGED aside

\* Lines 702-715: await proxyChain.anonymizeProxy(proxyUrl); a failure is
\* rethrown as "Failed to configure proxy".
SetupProxy(t) ==
  /\ tk[t].pc = "proxy"
  /\ \E ok \in BOOLEAN :
       /\ leases' = IF ok THEN anonymizeProxy(leases, ProcOf(t)) ELSE leases
       /\ tk' = [tk EXCEPT ![t] =
                   IF ok THEN [Stepped(tk[t], <<"proxy">>) EXCEPT !.pc = "spawn",
                                 !.proxyUrl = Len(anonymizeProxy(leases, ProcOf(t)))]
                   ELSE Throw(tk[t], "ProxyError")]
  /\ UNCHANGED <<lockFile, spawned, alive, runningBrowsers, bpRunning,
                 handles, calls, closed, faults>>
  /\ UNCHANGED aside

\* Lines 737-776: the timezone is resolved (the lookup of detectTimezoneFromIP
\* reads nothing of this state and never throws), then
\* await chromeLauncher.launch(...); on failure the anonymized proxy is closed
\* and the error rethrown.
Spawn(t) ==
  /\ tk[t].pc = "spawn"
  /\ \E ok \in BOOLEAN :
       IF ok
         THEN /\ Len(spawned) < MaxSpawn
              /\ \E port \in FreePorts :
                   spawned' = Append(spawned, [profile |-> tk[t].profile, port |-> port,
                                               proxy |-> tk[t].proxyUrl])
              /\ alive' = alive \cup {Len(spawned) + 1}
              /\ tk' = [tk EXCEPT ![t] =
                          [Stepped(tk[t], <<"timezone", "spawn">>) EXCEPT
                             !.pc = "cdp", !.chrome = Len(spawned) + 1, !.i = 0]]
              /\ UNCHANGED leases
         ELSE /\ leases' = closeAnonymizedProxy(leases, ProcOf(t), tk[t].proxyUrl)
              /\ tk' = [tk EXCEPT ![t] = Throw(tk[t], "LaunchFailed")]
              /\ UNCHANGED <<spawned, alive>>
  /\ UNCHANGED <<lockFile, runningBrowsers, bpRunning, handles, calls, closed,
                 faults>>
  /\ UNCHANGED aside

\* The values of the loop counter i at which a retry loop of n attempts ends:
\* any attempt when it succeeds (break), the last one when every attempt fails.
LoopEndsAt(n, ok) == {i \in 0..(n - 1) : ok \/ i = n - 1}

\* Lines 785-804, the CDP connection loop. An attempt that fails before the
\* last one changes nothing but the counter, so the loop is taken as one step
\* at the attempt i that ends it: attempt i connects, or it is the last attempt
\* and fails, and the catch block cleans up and rethrows.
CdpConnect(t) ==
  /\ tk[t].pc = "cdp"
  /\ ~Stalls(tk[t].chrome)    \* CDP({port}) sets no timeout
  /\ \E ok \in BOOLEAN, killOk \in BOOLEAN :
       /\ ok => tk[t].chrome \in alive
       /\ LoopEndsAt(cdpMaxRetries, ok) # {}
       /\ ok => killOk      \* kill() is called on failure only
       /\ Faulty(~ok /\ KillRejects(tk[t].chrome, killOk))
       /\ IF ok
            THEN /\ tk' = [tk EXCEPT ![t] = [tk[t] EXCEPT !.pc = "cfg", !.i = 0]]
                 /\ UNCHANGED <<alive, leases>>
            ELSE /\ alive' = AfterKill(tk[t].chrome, killOk)
                 /\ leases' = RollbackLeases(ProcOf(t), tk[t].chrome, tk[t].proxyUrl, killOk)
                 /\ tk' = [tk EXCEPT ![t] =
                             [Throw(tk[t], "CDPConnectFailed") EXCEPT
                                !.killRejected = KillRejects(tk[t].chrome, killOk)]]
  /\ UNCHANGED <<lockFile, spawned, runningBrowsers, bpRunning, handles, calls,
                 closed>>
  /\ UNCHANGED aside

\* A configuration that overrides the timezone before it injects the scripts
\* (what C17 must rule out).
ConfigCall_Swapped(i) ==
  CASE i = 0 -> "Network.enable"
    [] i = 1 -> "Network.setUserAgentOverride"
    [] i = 2 -> "Emulation.setTimezoneOverride"
    [] i = 3 -> "Page.addScriptToEvaluateOnNewDocument"

\* The i-th CDP call of lines 806-855.
ConfigCall(i) ==
  CASE i = 0 -> "Network.enable"
    [] i = 1 -> "Network.setUserAgentOverride"
    [] i = 2 -> "Page.addScriptToEvaluateOnNewDocument"
    [] i = 3 -> "Emulation.setTimezoneOverride"

\* Lines 806-855: Network.enable, Network.setUserAgentOverride,
\* Page.addScriptToEvaluateOnNewDocument, Emulation.setTimezoneOverride, awaited
\* one after the other outside any try block: a rejection leaves launchChrome
\* as it is.
ConfigStep(t) ==
  /\ tk[t].pc = "cfg"
  /\ ~Stalls(tk[t].chrome)    \* a CDP command waits for its reply
  /\ \E ok \in BOOLEAN :
       /\ ok => tk[t].chrome \in alive
       /\ tk' = [tk EXCEPT ![t] =
                   IF ~ok THEN Throw(tk[t], "ConfigFailed")
                   ELSE IF tk[t].i = NConfigSteps - 1
                     THEN [tk[t] EXCEPT !.pc = "cookies", !.i = 0,
                                        !.last = ConfigCall(tk[t].i)]
                     ELSE [tk[t] EXCEPT !.i = tk[t].i + 1,
                                        !.last = ConfigCall(tk[t].i)]]
  /\ UNCHANGED <<lockFile, spawned, alive, leases, runningBrowsers, bpRunning,
                 handles, calls, closed, faults>>
  /\ UNCHANGED aside

\* profile.cookies: profile p2 stores MaxCookies cookies, p1 none.
CookiesOf(p) == IF p = "p2" THEN MaxCookies ELSE 0

\* A loop that a rejected Network.setCookie leaves (what C18 must rule out).
SetCookies_Abort(n, rejected) ==
  IF \E k \in 1..n : rejected[k]
    THEN LET first == CHOOSE k \in 1..n : rejected[k] /\ \A j \in 1..(k - 1) : ~rejected[j]
         IN [k \in 1..first |-> ~rejected[k]]
    ELSE [k \in 1..n |-> TRUE]

\* Lines 859-873: Network.setCookie is awaited for each of the n cookies in
\* turn, each rejection swallowed by its own .catch; the result tells for each
\* cookie tried whether it was set.
SetCookies(n, rejected) == [k \in 1..n |-> ~rejected[k]]

\* Lines 857-874: the cookies are set, every rejection swallowed. The calls
\* touch nothing but the cookie store of the new browser, which no other step
\* reads, so the loop is one step.
Cookies(t) ==
  /\ tk[t].pc = "cookies"
  /\ CookiesOf(tk[t].profile) > 0 => ~Stalls(tk[t].chrome)
  /\ LET n == CookiesOf(tk[t].profile) IN
       \E rejected \in [1..n -> BOOLEAN] :
         tk' = [tk EXCEPT ![t] =
                  [tk[t] EXCEPT !.pc = "discover", !.i = 0,
                     !.cookieLog = SetCookies(n, rejected),
                     !.last = IF n > 0 THEN "Network.setCookie" ELSE tk[t].last]]
  /\ UNCHANGED <<lockFile, spawned, alive, leases, runningBrowsers, bpRunning,
                 handles, calls, closed, faults>>
  /\ UNCHANGED aside

\* A launch that registers and advertises the browser whether or not its
\* endpoint was found (what C6 must rule out).
TracksBrowser_Always(found) == TRUE

\* Lines 899-914: the throw of line 907 comes before runningBrowsers.set and
\* writeLockFile, which run only when versionInfo carries the endpoint.
TracksBrowser(found) == found

\* A launch that returns without tracking the browser (what C23 must rule out).
Register_Forgotten(rb, o, p, pid, url) == rb

\* Lines 910-923: the browser is tracked and the lock file written.
Register(rb, o, p, pid, url) ==
  [rb EXCEPT ![o][p] = [process |-> pid, proxyUrl |-> url]]

LockInfoOf(pid, ws, url) ==
  [pid |-> pid, port |-> spawned[pid].port, wsEndpoint |-> ws, proxyUrl |-> url]

\* Lines 876-956, endpoint discovery. As for the CDP loop, the loop is one step
\* at the attempt i that ends it: /json/version of the spawned browser's port
\* carries a webSocketDebuggerUrl, and the session is registered, advertised and
\* returned; or the last attempt fails too, and lines 899-908 clean up and throw.
Discover(t) ==
  /\ tk[t].pc = "discover"
  /\ \E ok \in BOOLEAN, killOk \in BOOLEAN, written \in BOOLEAN :
       LET o == ProcOf(t)
           p == tk[t].profile
           pid == tk[t].chrome
           url == tk[t].proxyUrl
           ws == VersionInfo(spawned[pid].port)
       IN
       /\ ok => ws # NoEndpoint
       /\ LoopEndsAt(maxRetries, ok) # {}
       /\ ok => killOk      \* kill() is called on failure only
       /\ ~ok => written    \* writeLockFile is called on success only
       /\ Faulty((~ok /\ KillRejects(pid, killOk)) \/ (ok /\ ~written))
       /\ runningBrowsers' =
            IF TracksBrowser(ok) THEN Register(runningBrowsers, o, p, pid, url)
            ELSE runningBrowsers
       /\ lockFile' =
            IF TracksBrowser(ok)
              THEN writeLockFile(lockFile, p, LockInfoOf(pid, ws, url), written)
              ELSE lockFile
       /\ IF ok
            THEN /\ Return(t, tk[t], LaunchHandle(o, p, pid, ws, url))
                 /\ UNCHANGED <<alive, leases>>
            ELSE /\ alive' = AfterKill(pid, killOk)
                 /\ leases' = RollbackLeases(o, pid, url, killOk)
                 /\ tk' = [tk EXCEPT ![t] =
                             [Throw(tk[t], "EndpointDiscoveryFailed") EXCEPT
                                !.killRejected = KillRejects(pid, killOk)]]
                 /\ UNCHANGED <<bpRunning, handles>>
  /\ UNCHANGED <<spawned, calls, closed>>
  /\ UNCHANGED aside

\* ------------------------------------------------------------------ close
\* close() has run to its end (it never rejects: its body is one try/catch).
\* Inside BrowserProfiles.launch the instance forgets the handle (line 269) and
\* goes on to launchChrome.
\* In the catch block of withPuppeteer (retry = 1) the close is launch.close()
\* of part_001 lines 272-281; profiles.launch is called next, whose instance
\* still tracks that handle and closes it once more before it launches.
CloseEnds(t, rec, full) ==
  /\ tk' = [tk EXCEPT ![t] =
              IF rec.wrap /\ rec.retry = 1
                THEN [rec EXCEPT !.retry = 2, !.pc = FirstCloseStep(rec.res),
                                 !.h = rec.res, !.log = << >>,
                                 !.killRejected = FALSE]
              ELSE IF rec.op = "bpLaunch" \/ rec.wrap
                THEN [rec EXCEPT !.pc = "start", !.h = NoHandle, !.log = << >>,
                                 !.killRejected = FALSE]
                ELSE [rec EXCEPT !.pc = "done"]]
  /\ bpRunning' =
       IF rec.op = "bpLaunch" /\ ~(rec.wrap /\ rec.retry = 1)
         THEN [bpRunning EXCEPT ![ProcOf(t)][rec.profile] = NoHandle]
         ELSE bpRunning
  /\ closed' = IF full THEN closed \cup {rec.h} ELSE closed

\* The teardown steps a close() has carried out so far, in order.
Logged(rec, step) == [rec EXCEPT !.log = Append(rec.log, step)]

\* Line 929 of the fresh handle's close: await client.close().catch(...).
CloseCdp(t) ==
  /\ tk[t].pc = "c_cdp"
  /\ tk' = [tk EXCEPT ![t] = [Logged(tk[t], "cdp") EXCEPT !.pc = "c_kill"]]
  /\ UNCHANGED <<lockFile, spawned, alive, leases, runningBrowsers, bpRunning,
                 handles, calls, closed, faults>>
  /\ UNCHANGED aside

\* Line 932: await chromeProcess.kill(); a rejection leaves the try block, so
\* the rest of close() is skipped.
CloseKill(t) ==
  /\ tk[t].pc = "c_kill"
  /\ \E killOk \in BOOLEAN :
       LET h == tk[t].h IN
       /\ Faulty(KillRejects(h.pid, killOk))
       /\ IF KillRejects(h.pid, killOk)
            THEN /\ CloseEnds(t, [Logged(tk[t], "kill") EXCEPT !.killRejected = TRUE],
                              FALSE)
                 /\ UNCHANGED alive
            ELSE /\ alive' = alive \ {h.pid}
                 /\ tk' = [tk EXCEPT ![t] =
                             [Logged(tk[t], "kill") EXCEPT
                                !.pc = IF h.proxyUrl # 0 THEN "c_proxy" ELSE "c_final"]]
                 /\ UNCHANGED <<bpRunning, closed>>
  /\ UNCHANGED <<lockFile, spawned, leases, runningBrowsers, handles, calls>>
  /\ UNCHANGED aside

\* Lines 935-937: await proxyChain.closeAnonymizedProxy(anonymizedProxyUrl, true).
CloseProxy(t) ==
  /\ tk[t].pc = "c_proxy"
  /\ leases' = closeAnonymizedProxy(leases, ProcOf(t), tk[t].h.proxyUrl)
  /\ tk' = [tk EXCEPT ![t] = [Logged(tk[t], "proxy") EXCEPT !.pc = "c_final"]]
  /\ UNCHANGED <<lockFile, spawned, alive, runningBrowsers, bpRunning, handles,
                 calls, closed, faults>>
  /\ UNCHANGED aside

\* Lines 939-943: runningBrowsers.delete(profile.id); deleteLockFile(userDataDir).
CloseFinal(t) ==
  /\ tk[t].pc = "c_final"
  /\ runningBrowsers' =
       [runningBrowsers EXCEPT ![ProcOf(t)][tk[t].h.profileId] = NoEntry]
  /\ lockFile' = deleteLockFile(lockFile, tk[t].h.profileId)
  /\ CloseEnds(t, Logged(Logged(tk[t], "registry"), "descriptor"), TRUE)
  /\ UNCHANGED <<spawned, alive, leases, handles, calls, faults>>
  /\ UNCHANGED aside

\* Lines 607-622, close() of a REUSE handle: SIGTERM to the lock file's pid when
\* it runs, deleteLockFile, runningBrowsers.delete, then the lock file's proxy.
\* process.kill may throw; the rest of the try block is then skipped.
ReuseClose(t) ==
  /\ tk[t].pc = "r_close"
  /\ \E killOk \in BOOLEAN :
       LET h == tk[t].h
           o == ProcOf(t)
           r1 == IF isProcessRunning(h.pid) THEN Logged(tk[t], "kill") ELSE tk[t]
           r2 == Logged(Logged(r1, "descriptor"), "registry")
           r3 == IF h.proxyUrl # 0 THEN Logged(r2, "proxy") ELSE r2
       IN
       /\ Faulty(KillRejects(h.pid, killOk))
       /\ IF KillRejects(h.pid, killOk)
            THEN /\ CloseEnds(t, [r1 EXCEPT !.killRejected = TRUE], FALSE)
                 /\ UNCHANGED <<alive, lockFile, runningBrowsers, leases>>
            ELSE /\ alive' = alive \ {h.pid}
                 /\ lockFile' = deleteLockFile(lockFile, h.profileId)
                 /\ runningBrowsers' = [runningBrowsers EXCEPT ![o][h.profileId] = NoEntry]
                 /\ leases' = closeAnonymizedProxy(leases, o, h.proxyUrl)
                 /\ CloseEnds(t, r3, TRUE)
  /\ UNCHANGED <<spawned, handles, calls>>
  /\ UNCHANGED aside

\* ------------------------------------------------------------ environment
\* A browser process exits on its own (crash, or the user quits it).
BrowserExit(b) ==
  /\ b \in alive
  /\ Faulty(TRUE)
  /\ alive' = alive \ {b}
  /\ UNCHANGED <<lockFile, spawned, leases, runningBrowsers, bpRunning,
                 handles, tk, calls, closed>>
  /\ UNCHANGED aside

\* A browser process stops answering (stopped, or busy for good) while it
\* keeps its debugging port open.
BrowserHangs(b) ==
  /\ b \in alive \ hung
  /\ Faulty(TRUE)
  /\ hung' = hung \cup {b}
  /\ UNCHANGED <<lockFile, spawned, alive, leases, runningBrowsers, bpRunning,
                 handles, tk, calls, closed, proxied, tzRun, store, sessions>>

\* The lock file of a profile is damaged on disk: truncated or overwritten by
\* something else than writeLockFile.
LockFileDamaged(p) ==
  /\ Faulty(TRUE)
  /\ \E content \in {Unreadable, Malformed} :
       lockFile' = [lockFile EXCEPT ![p] = content]
  /\ UNCHANGED <<spawned, alive, leases, runningBrowsers, bpRunning, handles, tk,
                 calls, closed>>
  /\ UNCHANGED aside

\* ------------------------------------------- closeBrowser, closeAllBrowsers
\* The servers urls of the lease table closed from OS process o.
CloseLeasesOf(ls, o, urls) ==
  [u \in DOMAIN ls |->
     IF u \in urls THEN closeAnonymizedProxy(ls, o, u)[u] ELSE ls[u]]

\* Lines 961-981, closeBrowser(profileId): false when the registry has no entry;
\* otherwise kill, close the proxy, delete the entry and return true, or return
\* false from the catch when kill() rejects. Where this action is taken one
\* task runs in the OS process, so nothing of that process comes between its
\* awaits.
CloseBrowser(t, p) ==
  /\ Settled(t)
  /\ calls < MaxCalls
  /\ calls' = calls + 1
  /\ \E killOk \in BOOLEAN :
       LET o == ProcOf(t)
           browser == runningBrowsers[o][p]
           done == browser # NoEntry /\ ~KillRejects(browser.process, killOk)
       IN
       /\ browser = NoEntry => killOk
       /\ Faulty(browser # NoEntry /\ KillRejects(browser.process, killOk))
       /\ alive' = IF done THEN alive \ {browser.process} ELSE alive
       /\ leases' = IF done THEN closeAnonymizedProxy(leases, o, browser.proxyUrl)
                    ELSE leases
       /\ runningBrowsers' =
            IF done THEN [runningBrowsers EXCEPT ![o][p] = NoEntry]
            ELSE runningBrowsers
       /\ tk' = [tk EXCEPT ![t] =
                   [IdleTask EXCEPT !.op = "closeBrowser", !.pc = "done",
                      !.profile = p, !.ret = IF done THEN "true" ELSE "false"]]
  /\ UNCHANGED <<lockFile, spawned, bpRunning, handles, closed>>
  /\ UNCHANGED aside

\* Lines 986-1002, closeAllBrowsers(): every entry's process is killed and its
\* proxy closed, a rejected kill() skips the proxy and is ignored; then the
\* registry is cleared.
CloseAllBrowsers(t) ==
  /\ Settled(t)
  /\ calls < MaxCalls
  /\ calls' = calls + 1
  /\ LET o == ProcOf(t)
         tracked == getRunningBrowsers(o)
     IN
     \E rejected \in SUBSET {p \in tracked : runningBrowsers[o][p].process \in alive} :
       /\ faults + Cardinality(rejected) <= MaxFaults
       /\ faults' = faults + Cardinality(rejected)
       /\ alive' = alive \ {runningBrowsers[o][p].process : p \in tracked \ rejected}
       /\ leases' = CloseLeasesOf(leases, o,
                       {runningBrowsers[o][p].proxyUrl : p \in tracked \ rejected})
       /\ runningBrowsers' = [runningBrowsers EXCEPT ![o] = [p \in Profiles |-> NoEntry]]
       /\ tk' = [tk EXCEPT ![t] =
                   [IdleTask EXCEPT !.op = "closeAllBrowsers", !.pc = "done"]]
  /\ UNCHANGED <<lockFile, spawned, bpRunning, handles, closed>>
  /\ UNCHANGED aside

\* ------------------------------------------------- withPuppeteer (part_001)
\* Lines 231-262: withPuppeteer({profile, profiles}) takes the BrowserProfiles
\* instance of the caller (shared) or makes a new one, whose map of running
\* browsers is empty, and awaits profiles.launch(profile.id).
BeginWithPuppeteer(t, p, shared) ==
  /\ Settled(t)
  /\ calls < MaxCalls
  /\ LET prev == IF shared THEN bpRunning[ProcOf(t)][p] ELSE NoHandle IN
       tk' = [tk EXCEPT ![t] =
                [IdleTask EXCEPT !.op = IF shared THEN "bpLaunch" ELSE "launchChrome",
                   !.wrap = TRUE, !.profile = p, !.prev = prev, !.h = prev,
                   !.pc = IF prev = NoHandle THEN "start" ELSE FirstCloseStep(prev)]]
  /\ calls' = calls + 1
  /\ UNCHANGED <<lockFile, spawned, alive, leases, runningBrowsers, bpRunning,
                 handles, closed, faults>>
  /\ UNCHANGED aside

\* The browser that serves the endpoint ws answers.
Serves(ws) == \E b \in alive : Endpoint(b) = ws /\ ~Stalls(b)

\* Lines 264-302: await puppeteer.connect({browserWSEndpoint: launch.wsEndpoint}).
\* It resolves only when the browser behind the endpoint answers, and it may
\* reject whatever the state of the browser (the library decides). When it
\* rejects for the first time, launch.close() is awaited and profiles.launch
\* called again; the rejection of the second connect leaves withPuppeteer.

\* A catch block that retries after every rejection (what C31 must rule out).
AfterConnectFailure_Again(rec) ==
  [rec EXCEPT !.retry = 1, !.h = rec.res, !.first = rec.res,
              !.pc = FirstCloseStep(rec.res)]

\* Lines 272-302: the catch block of the first connect closes the launch and
\* launches again; the second connect (line 297) stands in no try block.
AfterConnectFailure(rec) ==
  IF rec.retry = 0
    THEN [rec EXCEPT !.retry = 1, !.h = rec.res, !.first = rec.res,
                     !.pc = FirstCloseStep(rec.res)]
    ELSE Throw(rec, "ConnectFailed")

Connect(t) ==
  /\ tk[t].pc = "connect"
  /\ ~\E b \in alive : Endpoint(b) = tk[t].res.wsEndpoint /\ Stalls(b)
  /\ \E ok \in BOOLEAN :
       /\ ok => Serves(tk[t].res.wsEndpoint)
       /\ tk' = [tk EXCEPT ![t] =
                   IF ok THEN [tk[t] EXCEPT !.pc = "page"]
                   ELSE AfterConnectFailure(tk[t])]
  /\ UNCHANGED <<lockFile, spawned, alive, leases, runningBrowsers, bpRunning,
                 handles, calls, closed, faults>>
  /\ UNCHANGED aside

\* The session withPuppeteer returns: its launch handle, its own page and its
\* connection.
Session(o, h) ==
  [os |-> o, launch |-> h, pageOpen |-> TRUE, connected |-> TRUE,
   terminated |-> FALSE]

\* Lines 473-512: await browser.newPage(), the scripts, page.goto; the session
\* is returned. Each of these awaits may reject (none stands in a try block),
\* and each rejects when the browser has gone.
NewPage(t) ==
  /\ tk[t].pc = "page"
  /\ \E ok \in BOOLEAN :
       /\ ok => Serves(tk[t].res.wsEndpoint)
       /\ IF ok
            THEN /\ sessions' = Append(sessions, Session(ProcOf(t), tk[t].res))
                 /\ tk' = [tk EXCEPT ![t] = [tk[t] EXCEPT !.pc = "done"]]
            ELSE /\ tk' = [tk EXCEPT ![t] = Throw(tk[t], "PageFailed")]
                 /\ UNCHANGED sessions
  /\ UNCHANGED <<lockFile, spawned, alive, leases, runningBrowsers, bpRunning,
                 handles, calls, closed, faults, proxied, hung, tzRun, store>>

\* A close that closes the browser instead of leaving it (what C29 must rule
\* out).
Disconnect_Close(running, pid) == running \ {pid}

\* browser.disconnect(): the connection of this client is dropped, the browser
\* process goes on.
Disconnect(running, pid) == running

\* Lines 484-498, close() without terminate of a session:
\* await page.close().catch(() => {}); browser.disconnect().
SessionClose(t, k) ==
  /\ Settled(t)
  /\ calls < MaxCalls
  /\ sessions[k].os = ProcOf(t)
  /\ calls' = calls + 1
  /\ sessions' = [sessions EXCEPT ![k].pageOpen = FALSE, ![k].connected = FALSE]
  /\ alive' = Disconnect(alive, sessions[k].launch.pid)
  /\ tk' = [tk EXCEPT ![t] =
              [IdleTask EXCEPT !.op = "sessionClose", !.pc = "done",
                 !.profile = sessions[k].launch.profileId]]
  /\ UNCHANGED <<lockFile, spawned, leases, runningBrowsers, bpRunning, handles,
                 closed, faults, proxied, hung, tzRun, store>>

\* Lines 486-489 and 501-503, terminate() or close({terminate: true}):
\* browser.disconnect(); await launch.close().
SessionTerminate(t, k) ==
  /\ Settled(t)
  /\ calls < MaxCalls
  /\ sessions[k].os = ProcOf(t)
  /\ calls' = calls + 1
  /\ sessions' = [sessions EXCEPT ![k].connected = FALSE, ![k].terminated = TRUE]
  /\ tk' = [tk EXCEPT ![t] =
              [IdleTask EXCEPT !.op = "close", !.h = sessions[k].launch,
                 !.profile = sessions[k].launch.profileId,
                 !.pc = FirstCloseStep(sessions[k].launch)]]
  /\ UNCHANGED <<lockFile, spawned, alive, leases, runningBrowsers, bpRunning,
                 handles, closed, faults, proxied, hung, tzRun, store>>

\* ---------------------------------------------------- timezone of a launch
\* Lines 737-753: profile.timezone when set; else the timezone of geoInfo when
\* the profile has a proxy and detectTimezoneFromIP(profile.proxy.host) found
\* one; else Intl.DateTimeFormat().resolvedOptions().timeZone.
ResolvedTimezone(r) ==
  IF r.timezone # "" THEN r.timezone
  ELSE IF r.proxy /\ r.lookup # "" THEN r.lookup
  ELSE r.system

\* Lines 853-855: timezoneId: profile.timezone || 'America/New_York'.
TimezoneOverride(r) ==
  IF r.timezone # "" THEN r.timezone ELSE "America/New_York"

\* profile-manager.ts line 113, create(config):
\* timezone: config.timezone || this.options.defaultTimezone || 'America/New_York'.
CreatedTimezone(timezone, defaultTimezone) ==
  IF timezone # "" THEN timezone
  ELSE IF defaultTimezone # "" THEN defaultTimezone
  ELSE "America/New_York"

\* part_001 lines 535-558, quickLaunch(options): a BrowserProfiles made with a
\* storagePath only (no defaultTimezone) creates the temporary profile from
\* {name, proxy, timezone: options.timezone, fingerprint}, and the profile it
\* returns is launched.
QuickLaunchCreate ==
  /\ tzRun.pc = "create"
  /\ tzRun' = [tzRun EXCEPT !.pc = "resolve",
                            !.timezone = CreatedTimezone(tzRun.given, "")]
  /\ UNCHANGED <<orchestration, store, sessions>>

\* Lines 737-767: the timezone is resolved and Chrome is spawned with it in the
\* TZ variable of its environment.
ResolveTimezone ==
  /\ tzRun.pc = "resolve"
  /\ tzRun' = [tzRun EXCEPT !.pc = "spawned", !.TZ = ResolvedTimezone(tzRun)]
  /\ UNCHANGED <<orchestration, store, sessions>>

\* Lines 852-855: await Emulation.setTimezoneOverride on the CDP client, which
\* is attached to the first page of the browser.
SetTimezoneOverride ==
  /\ tzRun.pc = "spawned"
  /\ tzRun' = [tzRun EXCEPT !.pc = "configured", !.override = TimezoneOverride(tzRun)]
  /\ UNCHANGED <<orchestration, store, sessions>>

\* The timezone a page of the session runs in: the override on the first page,
\* the TZ of the process on a page opened later.
EffectiveTimezone(r, page) == IF page = "first" THEN r.override ELSE r.TZ

\* ------------------------------------------------ BrowserProfiles, the store
\* { ...existing, ...updates }: a field of updates replaces the field of
\* existing when updates carries it.
Spread(existing, updates) ==
  [id |-> IF updates.id # "" THEN updates.id ELSE existing.id,
   name |-> IF updates.name # "" THEN updates.name ELSE existing.name,
   createdAt |-> IF updates.createdAt # 0 THEN updates.createdAt
                 ELSE existing.createdAt,
   updatedAt |-> existing.updatedAt]

\* An update that only spreads and stamps (what C28 must rule out).
Updated_Spread(existing, updates, now) ==
  [Spread(existing, updates) EXCEPT !.updatedAt = now]

\* Lines 219-225: the spread, then id and createdAt of the existing profile,
\* and updatedAt: Date.now().
Updated(existing, updates, now) ==
  [Spread(existing, updates) EXCEPT !.id = existing.id,
                                    !.createdAt = existing.createdAt,
                                    !.updatedAt = now]

\* Date.now() goes on between two calls.
Tick(now) == now + 1

\* Lines 105-139, create(config): the id of config, the name of config or a
\* default one, createdAt and updatedAt now; config.json is written, over a
\* file that is already there.
Create(id, name) ==
  /\ store.now < MaxClock
  /\ LET profile == [id |-> id, name |-> IF name # "" THEN name ELSE "Profile",
                     createdAt |-> store.now, updatedAt |-> store.now]
     IN store' = [files |-> [store.files EXCEPT ![id] = profile],
                  now |-> Tick(store.now),
                  last |-> [op |-> "create", profileId |-> id,
                            updates |-> NoUpdates, ret |-> profile]]
  /\ UNCHANGED <<orchestration, tzRun, sessions>>

\* Lines 213-231, update(profileId, updates): null when get finds no profile;
\* otherwise the updated profile is written to the config.json of profileId
\* and returned.
Update(profileId, updates) ==
  /\ store.now < MaxClock
  /\ LET existing == store.files[profileId]
         updated == Updated(existing, updates, store.now)
     IN store' =
          IF existing = NoProfile
            THEN [store EXCEPT !.now = Tick(store.now),
                    !.last = [op |-> "update", profileId |-> profileId,
                              updates |-> updates, ret |-> NoProfile]]
            ELSE [files |-> [store.files EXCEPT ![profileId] = updated],
                  now |-> Tick(store.now),
                  last |-> [op |-> "update", profileId |-> profileId,
                            updates |-> updates, ret |-> updated]]
  /\ UNCHANGED <<orchestration, tzRun, sessions>>

\* ------------------------------------------------------------------- system
Next ==
  \/ \E t \in Tasks, p \in Profiles : BeginLaunchChrome(t, p)
  \/ \E t \in Tasks, p \in Profiles : BeginBpLaunch(t, p)
  \/ \E t \in Tasks, h \in handles : BeginClose(t, h)
  \/ \E t \in Tasks : LaunchStart(t)
  \/ \E t \in Tasks : Probe(t)
  \/ \E t \in Tasks : Reuse(t)
  \/ \E t \in Tasks : StaleCleanup(t)
  \/ \E t \in Tasks : SetupProxy(t)
  \/ \E t \in Tasks : Spawn(t)
  \/ \E t \in Tasks : CdpConnect(t)
  \/ \E t \in Tasks : ConfigStep(t)
  \/ \E t \in Tasks : Cookies(t)
  \/ \E t \in Tasks : Discover(t)
  \/ \E t \in Tasks : CloseCdp(t)
  \/ \E t \in Tasks : CloseKill(t)
  \/ \E t \in Tasks : CloseProxy(t)
  \/ \E t \in Tasks : CloseFinal(t)
  \/ \E t \in Tasks : ReuseClose(t)
  \/ \E b \in alive : BrowserExit(b)

Spec == Init /\ [][Next]_vars

SpecAllProxied == InitAllProxied /\ [][Next]_vars

\* One launch seen for its timezone only, from every profile.timezone, proxy,
\* lookup result and system timezone: a launchChrome call on a profile as it
\* is, or a quickLaunch call, which creates the profile from its options.
InitTimezone ==
  /\ NothingRunning
  /\ proxied = {}
  /\ StoreAtRest
  /\ NoSessions
  /\ \E timezone \in Zones \cup {""}, proxy \in BOOLEAN, lookup \in Zones \cup {""},
        system \in Zones, via \in {"launchChrome", "quickLaunch"} :
       /\ ~proxy => lookup = ""     \* no lookup without a proxy
       /\ tzRun = [timezone |-> IF via = "quickLaunch" THEN "" ELSE timezone,
                   proxy |-> proxy, lookup |-> lookup, system |-> system,
                   pc |-> IF via = "quickLaunch" THEN "create" ELSE "resolve",
                   TZ |-> "", override |-> "", via |-> via, given |-> timezone]

NextTimezone ==
  \/ QuickLaunchCreate
  \/ ResolveTimezone
  \/ SetTimezoneOverride

SpecTimezone == InitTimezone /\ [][NextTimezone]_vars

\* The values an updates object may carry in a field; "" and 0 stand for a
\* field it does not carry.
UpdatesGiven ==
  [id : Profiles \cup {""}, name : {"", "renamed"}, createdAt : {0, MaxClock}]

\* One BrowserProfiles instance used for its store only.
NextStore ==
  \/ \E id \in Profiles, name \in {"", "work"} : Create(id, name)
  \/ \E id \in Profiles, updates \in UpdatesGiven : Update(id, updates)

\* A new storage directory.
InitStore ==
  NothingRunning /\ proxied = {} /\ TimezoneAtRest /\ StoreAtRest /\ NoSessions

SpecStore == InitStore /\ [][NextStore]_vars

\* One OS process whose callers go through withPuppeteer only, with the
\* BrowserProfiles instance of the process or with a new one.
NextPuppeteer ==
  \/ \E p \in Profiles, shared \in BOOLEAN : BeginWithPuppeteer(1, p, shared)
  \/ LaunchStart(1)
  \/ Probe(1)
  \/ Reuse(1)
  \/ StaleCleanup(1)
  \/ SetupProxy(1)
  \/ Spawn(1)
  \/ CdpConnect(1)
  \/ ConfigStep(1)
  \/ Cookies(1)
  \/ Discover(1)
  \/ Connect(1)
  \/ NewPage(1)
  \/ \E k \in DOMAIN sessions : SessionClose(1, k)
  \/ \E k \in DOMAIN sessions : SessionTerminate(1, k)
  \/ CloseCdp(1)
  \/ CloseKill(1)
  \/ CloseProxy(1)
  \/ CloseFinal(1)
  \/ ReuseClose(1)
  \/ \E b \in alive : BrowserExit(b)

SpecPuppeteer == Init /\ [][NextPuppeteer]_vars

\* A step of a launchChrome call: the continuation of its last await.
LaunchStep(t) ==
  \/ LaunchStart(t)
  \/ Probe(t)
  \/ Reuse(t)
  \/ StaleCleanup(t)
  \/ SetupProxy(t)
  \/ Spawn(t)
  \/ CdpConnect(t)
  \/ ConfigStep(t)
  \/ Cookies(t)
  \/ Discover(t)

\* One OS process that uses the module's functions launchChrome, closeBrowser
\* and closeAllBrowsers, on a host where browsers may stall and lock files may
\* be damaged.
NextModule ==
  \/ \E p \in Profiles : BeginLaunchChrome(1, p)
  \/ LaunchStart(1)
  \/ Probe(1)
  \/ Reuse(1)
  \/ StaleCleanup(1)
  \/ SetupProxy(1)
  \/ Spawn(1)
  \/ CdpConnect(1)
  \/ ConfigStep(1)
  \/ Cookies(1)
  \/ Discover(1)
  \/ \E p \in Profiles : CloseBrowser(1, p)
  \/ CloseAllBrowsers(1)
  \/ \E b \in alive : BrowserExit(b)
  \/ \E b \in alive : BrowserHangs(b)
  \/ \E p \in Profiles : LockFileDamaged(p)

\* The event loop of Node.js runs the continuation of an await whose promise
\* has settled: a launchChrome call that can take a step takes it.
SpecModule == Init /\ [][NextModule]_vars /\ WF_vars(LaunchStep(1))

\* One OS process in which two launchChrome calls may be in flight at once,
\* their steps interleaved at the awaits; closeAllBrowsers is called when no
\* launch is under way.
NextOverlap ==
  \/ \E t \in Overlapping, p \in Profiles : BeginLaunchChrome(t, p)
  \/ \E t \in Overlapping : LaunchStart(t)
  \/ \E t \in Overlapping : Probe(t)
  \/ \E t \in Overlapping : Reuse(t)
  \/ \E t \in Overlapping : StaleCleanup(t)
  \/ \E t \in Overlapping : SetupProxy(t)
  \/ \E t \in Overlapping : Spawn(t)
  \/ \E t \in Overlapping : CdpConnect(t)
  \/ \E t \in Overlapping : ConfigStep(t)
  \/ \E t \in Overlapping : Cookies(t)
  \/ \E t \in Overlapping : Discover(t)
  \/ (\A t \in Overlapping : Settled(t)) /\ CloseAllBrowsers(1)

SpecOverlap == Init /\ [][NextOverlap]_vars

\* ------------------------------------------------------------------ claims
LaunchPcs == {"start", "probe", "probed", "proxy", "spawn", "cdp", "cfg",
              "cookies", "discover"}
ClosePcs == {"c_cdp", "c_kill", "c_proxy", "c_final", "r_close"}

\* Task t takes the step.
Moves(t) == tk'[t] # tk[t]

\* The running browser processes started on profile p's data directory.
LiveBrowsers(p) == {b \in alive : spawned[b].profile = p}

\* C1: at every moment at most one live browser process exists per profile,
\* also when several OS processes acquire the profile concurrently.
C1_AtMostOneLiveBrowser ==
  \A p \in Profiles : Cardinality(LiveBrowsers(p)) <= 1

\* C2: when BrowserProfiles.launch has returned for the second of two
\* acquisitions of a profile on one instance (the first launched the browser,
\* nothing else was started, no crash, no rejected kill, no failed lock file
\* write), the second handle has the first one's endpoint
\* address and process id and the second call spawned no process.
C2_ReuseIdempotence ==
  \A t \in Tasks :
    ( /\ tk[t].op = "bpLaunch"
      /\ tk[t].pc = "done"
      /\ tk[t].prev.kind = "launch"
      /\ calls = 2
      /\ faults = 0 )
    => /\ tk[t].res.wsEndpoint = tk[t].prev.wsEndpoint
       /\ tk[t].res.pid = tk[t].prev.pid
       /\ tk[t].chrome = 0

\* C3: when the probe of an existing lock file fails, the next step of
\* launchChrome deletes the lock file and goes on with the launch path (the
\* proxy setup or the spawn); the only error it can raise there is the missing
\* browser executable, never the stale lock file or the failed probe.
C3_StaleDescriptorSelfHeals ==
  [][ \A t \in Tasks :
        (tk[t].pc = "probed" /\ tk[t].existing = NoExisting /\ Moves(t))
        => /\ lockFile'[tk[t].profile] = NoLock
           /\ \/ tk'[t].pc \in {"proxy", "spawn"}
              \/ tk'[t].pc = "failed" /\ tk'[t].err = "ChromeNotFound" ]_vars

\* C3 witness: a launch that found a lock file whose port did not answer has
\* deleted it, spawned a new browser and configured it.
C3_Witness ==
  \E t \in Tasks :
    /\ tk[t].pc = "discover"
    /\ tk[t].lockInfo # NoLock
    /\ tk[t].existing = NoExisting
    /\ tk[t].chrome \in alive
    /\ tk[t].lockInfo.pid # tk[t].chrome

\* The step in which the CDP connection loop gives up and launchChrome rejects.
HandshakeGivesUp(t) ==
  tk[t].pc = "cdp" /\ tk'[t].pc = "failed" /\ tk'[t].err = "CDPConnectFailed"

C5_RollbackBeforeError ==
  [][ \A t \in Tasks :
        (tk[t].pc \in LaunchPcs /\ tk'[t].pc = "failed" /\ ~tk'[t].killRejected)
        => /\ tk'[t].chrome # 0 => tk'[t].chrome \notin alive'
           /\ tk'[t].proxyUrl # 0 => ~leases'[tk'[t].proxyUrl].open ]_vars

\* C6 as stated: after a launchChrome call has failed, the profile is not in
\* the session registry of the calling process and no descriptor written by the
\* call advertises it.
C6_NotRegisteredAfterFailure ==
  [][ \A t \in Tasks :
        (tk[t].pc \in LaunchPcs /\ tk'[t].pc = "failed")
        => /\ runningBrowsers'[ProcOf(t)][tk[t].profile] = NoEntry
           /\ tk'[t].chrome # 0 => lockFile'[tk[t].profile].pid # tk'[t].chrome ]_vars

\* C6 amended: a launchChrome call that has failed has registered nothing and
\* advertised nothing: no registry entry and no session descriptor names the
\* process it spawned, and no handle for that process has been returned.
C6_FailedLaunchLeavesNothing ==
  \A t \in Tasks :
    (tk[t].pc = "failed" /\ tk[t].chrome # 0)
    => /\ \A o \in OSProcs, p \in Profiles :
            runningBrowsers[o][p].process # tk[t].chrome
       /\ \A p \in Profiles : lockFile[p].pid # tk[t].chrome
       /\ \A h \in handles : h.kind = "launch" => h.pid # tk[t].chrome

\* C6 witness: endpoint discovery has given up on a spawned browser while the
\* registry of the calling process still holds the profile's earlier session.
C6_Witness ==
  \E t \in Tasks :
    /\ tk[t].pc = "failed"
    /\ tk[t].err = "EndpointDiscoveryFailed"
    /\ tk[t].chrome # 0
    /\ runningBrowsers[ProcOf(t)][tk[t].profile] # NoEntry

\* The step in which a close() returns to its caller.
CloseReturns(t) == tk[t].pc \in ClosePcs /\ tk'[t].pc \notin ClosePcs

\* C7: when close() returns, also after a step of it has failed, the proxy
\* lease of the handle is released where the closing process runs it, the
\* profile is out of the closing process's registry and the descriptor is gone.
C7_TeardownStepsIndependent ==
  [][ \A t \in Tasks :
        CloseReturns(t)
        => LET h == tk[t].h IN
           /\ (h.proxyUrl # 0 /\ leases[h.proxyUrl].os = ProcOf(t))
                => ~leases'[h.proxyUrl].open
           /\ runningBrowsers'[ProcOf(t)][h.profileId] = NoEntry
           /\ lockFile'[h.profileId] = NoLock ]_vars

\* C8: a step of a close() on a handle whose close() has already run through
\* all its steps changes no process, no proxy lease, no registry and no
\* descriptor.
C8_SecondCloseNoSideEffects ==
  [][ \A t \in Tasks :
        (tk[t].pc \in ClosePcs /\ tk[t].h \in closed /\ Moves(t))
        => /\ alive' = alive
           /\ leases' = leases
           /\ runningBrowsers' = runningBrowsers
           /\ lockFile' = lockFile ]_vars

\* The place of a teardown step in the order of the specification.
StepRank(step) ==
  CASE step = "cdp" -> 1
    [] step = "kill" -> 2
    [] step = "proxy" -> 3
    [] step = "registry" -> 4
    [] step = "descriptor" -> 5

\* C9: the teardown steps a close() carries out come in the order control
\* connection, process, proxy lease, registry, descriptor, for the handle of a
\* fresh launch and for a REUSE handle.
C9_TeardownOrder ==
  \A t \in Tasks :
    \A j, k \in DOMAIN tk[t].log :
      j < k => StepRank(tk[t].log[j]) < StepRank(tk[t].log[k])

\* C10: a successful probe yields the endpoint the browser on the lock file's
\* port reports at that moment, and the REUSE step returns a handle with that
\* endpoint and the lock file's pid and port; the call has spawned no process
\* and created no proxy lease.
C10_ReuseHandle ==
  [][ \A t \in Tasks :
        /\ (tk[t].pc = "probe" /\ Moves(t) /\ tk'[t].existing # NoExisting)
             => \E b \in alive :
                  /\ spawned[b].port = tk[t].lockInfo.port
                  /\ tk'[t].existing.wsEndpoint = [port |-> spawned[b].port, guid |-> b]
        /\ (tk[t].pc = "probed" /\ tk[t].existing # NoExisting /\ Moves(t))
             => /\ tk'[t].pc = "done"
                /\ tk'[t].res.kind = "reuse"
                /\ tk'[t].res.wsEndpoint = tk[t].existing.wsEndpoint
                /\ tk'[t].res.pid = tk[t].lockInfo.pid
                /\ tk'[t].res.port = tk[t].lockInfo.port
                /\ tk'[t].chrome = 0 /\ tk'[t].proxyUrl = 0
                /\ spawned' = spawned /\ leases' = leases ]_vars

\* C10 witness: a REUSE handle has been returned whose endpoint is the one of
\* the browser now listening on the port, not the one the lock file stored for
\* the process it names.
C10_Witness ==
  \E h \in handles :
    /\ h.kind = "reuse"
    /\ h.wsEndpoint.guid # h.pid
    /\ h.wsEndpoint.port = h.port

\* C11: when launchChrome returns through REUSE, the profile id is in the
\* session registry of the calling process (getRunningBrowsers lists it).
C11_ReuseRegisters ==
  [][ \A t \in Tasks :
        (tk[t].pc = "probed" /\ tk[t].existing # NoExisting /\ tk'[t].pc = "done")
        => tk[t].profile \in (getRunningBrowsers(ProcOf(t)))' ]_vars

\* The step in which an acquisition (launchChrome or BrowserProfiles.launch)
\* returns a handle.
AcquisitionReturns(t) ==
  tk[t].op \in {"launchChrome", "bpLaunch"} /\ tk[t].pc # "done" /\ tk'[t].pc = "done"

\* C12: a probe yields an endpoint only when a browser answers on the lock
\* file's port at that moment; an acquisition returns a handle only out of its
\* own successful probe (carrying the probed endpoint) or out of its own fresh
\* launch, never a handle kept from an earlier acquisition.
C12_ProbedBeforeReuse ==
  [][ \A t \in Tasks :
        /\ (tk[t].pc = "probe" /\ Moves(t) /\ tk'[t].existing # NoExisting)
             => Listening(tk[t].lockInfo.port) # {}
        /\ AcquisitionReturns(t)
             => \/ /\ tk[t].pc = "probed"
                   /\ tk[t].existing # NoExisting
                   /\ tk[t].existing.port = tk[t].lockInfo.port
                   /\ tk'[t].res.kind = "reuse"
                   /\ tk'[t].res.wsEndpoint = tk[t].existing.wsEndpoint
                \/ /\ tk[t].pc = "discover"
                   /\ tk'[t].res.kind = "launch"
                   /\ tk'[t].res.pid = tk[t].chrome ]_vars

\* C12 witness: BrowserProfiles.launch, called while the instance tracked a
\* handle for the profile, has returned a REUSE handle out of a probe of its own.
C12_Witness ==
  \E t \in Tasks :
    /\ tk[t].op = "bpLaunch"
    /\ tk[t].pc = "done"
    /\ tk[t].prev # NoHandle
    /\ tk[t].res.kind = "reuse"

\* C13: a browser for a profile with a proxy is spawned only while the call
\* holds an open proxy lease of its own process, acquired earlier in the call;
\* and when the lease cannot be acquired the call fails with no browser spawned.
C13_LeaseBeforeSpawn ==
  [][ \A t \in Tasks :
        /\ (tk[t].pc = "spawn" /\ tk'[t].chrome # 0 /\ HasProxy(tk[t].profile))
             => /\ tk[t].proxyUrl \in DOMAIN leases
                /\ leases[tk[t].proxyUrl].open
                /\ leases[tk[t].proxyUrl].os = ProcOf(t)
        /\ (tk[t].pc = "proxy" /\ tk'[t].pc = "failed")
             => /\ spawned' = spawned
                /\ alive' = alive
                /\ tk'[t].chrome = 0 ]_vars

\* C13 witness: a launch for a profile with a proxy has failed at the proxy
\* setup, with no browser spawned by it.
C13_Witness ==
  \E t \in Tasks :
    /\ tk[t].pc = "failed"
    /\ tk[t].err = "ProxyError"
    /\ HasProxy(tk[t].profile)
    /\ tk[t].chrome = 0

\* C14: when the spawn fails, the step that raises the error has released the
\* proxy lease acquired by the call, and it registers nothing, writes no
\* descriptor and returns no handle.
C14_SpawnFailureReleasesLease ==
  [][ \A t \in Tasks :
        (tk[t].pc = "spawn" /\ tk'[t].pc = "failed")
        => /\ tk[t].proxyUrl # 0 => ~leases'[tk[t].proxyUrl].open
           /\ tk'[t].chrome = 0
           /\ runningBrowsers' = runningBrowsers
           /\ lockFile' = lockFile
           /\ handles' = handles ]_vars

\* C14 witness: a launch that had acquired a proxy lease has failed at the
\* spawn and its lease is closed.
C14_Witness ==
  \E t \in Tasks :
    /\ tk[t].pc = "failed"
    /\ tk[t].err = "LaunchFailed"
    /\ tk[t].proxyUrl # 0
    /\ ~leases[tk[t].proxyUrl].open

\* C15: when close() returns on a handle of a session (nothing having crashed
\* and no kill having been rejected), the proxy lease of that session is not
\* open any more, whichever process holds the handle.
C15_LeaseClosedWithSession ==
  [][ \A t \in Tasks :
        (CloseReturns(t) /\ faults' = 0 /\ tk[t].h.proxyUrl # 0)
        => ~leases'[tk[t].h.proxyUrl].open ]_vars

ConfigRank(call) ==
  CASE call = "" -> 0
    [] call = "Network.enable" -> 1
    [] call = "Network.setUserAgentOverride" -> 2
    [] call = "Page.addScriptToEvaluateOnNewDocument" -> 3
    [] call = "Emulation.setTimezoneOverride" -> 4
    [] call = "Network.setCookie" -> 5

\* C17: launchChrome issues its configuration calls one at a time, each the
\* next in the order user-agent override, script injection, timezone override,
\* cookies; no step before endpoint discovery registers or advertises the
\* browser, and the session is registered only after the timezone override and
\* the cookies of the profile.
C17_ConfigurationOrder ==
  [][ \A t \in Tasks :
        /\ (tk'[t].last # tk[t].last /\ tk'[t].last # "")
             => ConfigRank(tk'[t].last) = ConfigRank(tk[t].last) + 1
        /\ (tk[t].pc \in {"cdp", "cfg", "cookies"} /\ Moves(t))
             => /\ runningBrowsers' = runningBrowsers
                /\ lockFile' = lockFile
                /\ handles' = handles
        /\ (tk[t].pc = "discover" /\ tk'[t].pc = "done")
             => ConfigRank(tk[t].last) =
                  IF CookiesOf(tk[t].profile) > 0 THEN 5 ELSE 4 ]_vars

\* C17 witness: a launch has issued all its configuration calls, the cookies
\* last, and is at endpoint discovery with nothing registered for its browser.
C17_Witness ==
  \E t \in Tasks :
    /\ tk[t].pc = "discover"
    /\ tk[t].last = "Network.setCookie"
    /\ runningBrowsers[ProcOf(t)][tk[t].profile] = NoEntry
    /\ lockFile[tk[t].profile] = NoLock

\* C18: the cookie step tries every cookie of the profile whatever the outcome
\* of the others, and the acquisition goes on to endpoint discovery.
C18_CookieFailuresSwallowed ==
  [][ \A t \in Tasks :
        (tk[t].pc = "cookies" /\ Moves(t))
        => /\ tk'[t].pc = "discover"
           /\ Len(tk'[t].cookieLog) = CookiesOf(tk[t].profile) ]_vars

\* C18 witness: the first cookie of a profile was rejected, the next one was
\* set, and the launch is at endpoint discovery.
C18_Witness ==
  \E t \in Tasks :
    /\ tk[t].pc = "discover"
    /\ Len(tk[t].cookieLog) >= 2
    /\ ~tk[t].cookieLog[1]
    /\ tk[t].cookieLog[2]

\* C19: the CDP connection loop gives up at its 10th attempt only, and the
\* step that raises the error leaves the spawned process terminated (unless its
\* kill() rejected) and the proxy lease of the call released.
C19_HandshakeRetryRollback ==
  [][ \A t \in Tasks :
        HandshakeGivesUp(t)
        => /\ LoopEndsAt(cdpMaxRetries, FALSE) = {10 - 1}
           /\ tk'[t].killRejected \/ tk[t].chrome \notin alive'
           /\ tk[t].proxyUrl # 0 => ~leases'[tk[t].proxyUrl].open ]_vars

\* The step in which endpoint discovery gives up and launchChrome rejects.
DiscoveryGivesUp(t) == tk[t].pc = "discover" /\ tk'[t].pc = "failed"

\* C20: endpoint discovery gives up at its 10th query only, and the step that
\* fails the acquisition leaves the spawned process terminated (unless its
\* kill() rejected) and the proxy lease released, and registers and advertises
\* nothing.
C20_DiscoveryRetryRollback ==
  [][ \A t \in Tasks :
        DiscoveryGivesUp(t)
        => /\ LoopEndsAt(maxRetries, FALSE) = {10 - 1}
           /\ tk'[t].killRejected \/ tk[t].chrome \notin alive'
           /\ tk[t].proxyUrl # 0 => ~leases'[tk[t].proxyUrl].open
           /\ runningBrowsers' = runningBrowsers
           /\ lockFile' = lockFile
           /\ handles' = handles ]_vars


\* C21 Every launchChrome call eventually returns a handle or raises an error:
\* no unresponsive peer makes it wait forever.
C21_AcquisitionEnds ==
  \A t \in Tasks : (tk[t].pc \in LaunchPcs) ~> Settled(t)


\* The launch path has begun: the proxy setup, the spawn, or the failure of
\* getChromePath.
OnLaunchPath(rec) ==
  \/ rec.pc \in {"proxy", "spawn"}
  \/ rec.pc = "failed" /\ rec.err = "ChromeNotFound"

C23_WriteFailureStillReturns ==
  [][\A t \in Tasks :
       /\ (tk[t].pc = "discover" /\ tk'[t].pc = "done")
          => /\ runningBrowsers'[ProcOf(t)][tk[t].profile].process = tk[t].chrome
             /\ tk'[t].res \in handles'
             /\ tk'[t].res.kind = "launch"
             /\ tk'[t].res.os = ProcOf(t)
             /\ tk'[t].res.pid = tk[t].chrome
             /\ tk'[t].res.wsEndpoint # NoEndpoint
       /\ (tk[t].pc = "c_kill" /\ Moves(t) /\ faults' = faults)
          => tk[t].h.pid \notin alive'
    ]_vars

\* The only call so far has returned a launch handle, its browser runs and is
\* registered, and no lock file is on disk: the write failed.
C23_Witness ==
  \E t \in Tasks :
    /\ calls = 1
    /\ tk[t].pc = "done"
    /\ tk[t].res.kind = "launch"
    /\ tk[t].res.pid \in alive
    /\ runningBrowsers[ProcOf(t)][tk[t].profile].process = tk[t].res.pid
    /\ lockFile[tk[t].profile] = NoLock

\* The place of a step in the order the specification gives.
LaunchRank(step) ==
  CASE step = "chromePath" -> 1
    [] step = "singleton" -> 2
    [] step = "timezone" -> 3
    [] step = "proxy" -> 4
    [] step = "spawn" -> 5

\* C25 Within one launch the steps occur in this order: resolve the executable,
\* remove the stale singleton files, resolve the timezone, acquire the proxy
\* lease, spawn the process.
C25_LaunchStepOrder ==
  \A t \in Tasks :
    \A i, j \in DOMAIN tk[t].steps :
      i < j => LaunchRank(tk[t].steps[i]) < LaunchRank(tk[t].steps[j])

\* C26 Two acquisitions that fail at different stages raise errors of different
\* types.
C26_TypedErrors ==
  \A t1, t2 \in Tasks :
    ( /\ tk[t1].pc = "failed"
      /\ tk[t2].pc = "failed"
      /\ tk[t1].err # tk[t2].err )
    => tk[t1].thrown.name # tk[t2].thrown.name

\* Profile p is torn down in OS process o: no browser started on it runs, the
\* registry of o has no entry for it and no lock file is left.
TornDown(o, p) ==
  /\ LiveBrowsers(p)' = {}
  /\ runningBrowsers'[o][p] = NoEntry
  /\ lockFile'[p] = NoLock

\* C27 After closeBrowser(p) returns true, and after closeAllBrowsers returns,
\* the profiles that were registered have no process, no open proxy lease, no
\* registry entry and no lock file.
C27_FullTeardown ==
  [][\A t \in Tasks :
       /\ \A p \in Profiles :
            ( /\ tk'[t].op = "closeBrowser"
              /\ tk'[t].profile = p
              /\ tk'[t].ret = "true"
              /\ Moves(t) )
            => /\ TornDown(ProcOf(t), p)
               /\ runningBrowsers[ProcOf(t)][p].proxyUrl \notin OpenLeases'
       /\ (tk'[t].op = "closeAllBrowsers" /\ Moves(t) /\ faults' = faults)
          => \A p \in getRunningBrowsers(ProcOf(t)) :
               /\ TornDown(ProcOf(t), p)
               /\ runningBrowsers[ProcOf(t)][p].proxyUrl \notin OpenLeases'
    ]_vars


\* C24 The timezone of a launch is the profile's timezone when set, else the one
\* the lookup on the proxy host returns when the profile has a proxy and the
\* lookup succeeds, else the host's local timezone: every page of the session
\* runs in it.
C24_EffectiveTimezone ==
  tzRun.pc = "configured" =>
    \A page \in {"first", "later"} :
      EffectiveTimezone(tzRun, page) =
        IF tzRun.timezone # "" THEN tzRun.timezone
        ELSE IF tzRun.proxy /\ tzRun.lookup # "" THEN tzRun.lookup
        ELSE tzRun.system


\* C28 update never changes the id or the createdAt of a stored profile,
\* whatever the updates object carries, and update of an unknown id returns
\* null and writes nothing.
C28_IdImmutable ==
  [][store'.last.op = "update" /\ store' # store =>
       LET profileId == store'.last.profileId IN
         /\ store.files[profileId] # NoProfile =>
              /\ store'.files[profileId].id = store.files[profileId].id
              /\ store'.files[profileId].createdAt = store.files[profileId].createdAt
              /\ store'.last.ret = store'.files[profileId]
         /\ store.files[profileId] = NoProfile =>
              /\ store'.last.ret = NoProfile
              /\ store'.files = store.files
         /\ \A other \in Profiles \ {profileId} :
              store'.files[other] = store.files[other]
    ]_vars

\* An update of a stored profile whose updates object carried another id and
\* another createdAt has returned: the stored profile keeps its own.
C28_Witness ==
  /\ store.last.op = "update"
  /\ store.last.ret # NoProfile
  /\ store.last.updates.id \notin {"", store.last.profileId}
  /\ store.last.updates.createdAt \notin {0, store.last.ret.createdAt}
  /\ store.files[store.last.profileId].id = store.last.profileId


\* Task t has called close() without terminate of a session in this step.
SessionCloseStep(t) ==
  /\ calls' = calls + 1
  /\ tk'[t].op = "sessionClose"
  /\ \A u \in Tasks \ {t} : tk'[u] = tk[u]

\* Task t has called terminate() of session k in this step.
TerminateStep(t, k) ==
  /\ calls' = calls + 1
  /\ sessions'[k].terminated
  /\ ~sessions[k].terminated
  /\ \A u \in Tasks \ {t} : tk'[u] = tk[u]

\* C29 close() without terminate of a Puppeteer session closes its own page and
\* disconnects: no process is terminated, no proxy lease released, no lock file
\* deleted, no other session touched; terminate() goes into close() of the
\* session's launch handle.
C29_CloseLeavesBrowser ==
  [][\A t \in Tasks :
       /\ SessionCloseStep(t)
          => /\ alive' = alive
             /\ leases' = leases
             /\ lockFile' = lockFile
             /\ runningBrowsers' = runningBrowsers
             /\ \E k \in DOMAIN sessions :
                  sessions' = [sessions EXCEPT ![k].pageOpen = FALSE,
                                               ![k].connected = FALSE]
       /\ \A k \in DOMAIN sessions :
            TerminateStep(t, k)
            => /\ tk'[t].h = sessions[k].launch
               /\ tk'[t].pc = FirstCloseStep(sessions[k].launch)
    ]_vars

\* A session has been closed without terminate: its page is gone, and its
\* browser runs on with its lock file on disk.
C29_Witness ==
  \E k \in DOMAIN sessions :
    /\ ~sessions[k].pageOpen
    /\ ~sessions[k].terminated
    /\ sessions[k].launch.pid \in alive
    /\ lockFile[sessions[k].launch.profileId].pid = sessions[k].launch.pid

\* C30 A withPuppeteer call made for a profile that has an open session on a
\* running browser attaches to that browser: with no crash, no rejected kill,
\* no failed lock file write and no rejected connect so far, no step of the
\* call terminates it or spawns another one; and closing a session leaves
\* every browser running.
C30_SecondSessionAttaches ==
  [][\A t \in Tasks :
       /\ (tk[t].wrap /\ Moves(t) /\ faults' = 0 /\ tk'[t].retry = 0)
          => \A k \in DOMAIN sessions :
               ( /\ sessions[k].launch.profileId = tk[t].profile
                 /\ ~sessions[k].terminated
                 /\ sessions[k].launch.pid \in alive )
               => /\ sessions[k].launch.pid \in alive'
                  /\ spawned' = spawned
       /\ SessionCloseStep(t) => alive' = alive
    ]_vars

C32_QuickLaunchTimezone ==
  ( /\ tzRun.via = "quickLaunch" /\ tzRun.given = ""
    /\ tzRun.pc \in {"spawned", "configured"} )
  => /\ (tzRun.proxy /\ tzRun.lookup # "") => tzRun.TZ = tzRun.lookup
     /\ ~tzRun.proxy => tzRun.TZ = tzRun.system

\* C33 close() of a handle whose browser has been torn down by an earlier
\* close() leaves the session launched since on the same profile alone: the
\* lock file naming another pid stays as it is, and so does the registry entry
\* of another process.
C33_CloseOwnSessionOnly ==
  [][\A t \in Tasks :
       (tk[t].pc \in ClosePcs /\ tk[t].h \in closed /\ Moves(t))
       => LET h == tk[t].h
              p == tk[t].h.profileId
              o == ProcOf(t)
          IN /\ (lockFile[p] # NoLock /\ lockFile[p].pid # h.pid)
                  => lockFile'[p] = lockFile[p]
             /\ ( /\ runningBrowsers[o][p] # NoEntry
                  /\ runningBrowsers[o][p].process # h.pid )
                  => runningBrowsers'[o][p] = runningBrowsers[o][p]
    ]_vars

\* C34 A handle returned by REUSE names one browser: its pid is a process that
\* was spawned for its profile, and its endpoint is the endpoint of that very
\* process.
C34_ReuseHandleOneBrowser ==
  \A h \in handles :
    h.kind = "reuse"
    => /\ h.pid \in DOMAIN spawned
       /\ spawned[h.pid].profile = h.profileId
       /\ h.wsEndpoint = Endpoint(h.pid)

\* C35 While no browser has exited on its own and nothing has failed, and no
\* call is under way, every profile id in a session registry of a process (the
\* launcher's runningBrowsers, the map of BrowserProfiles) stands for a browser
\* process that runs.
C35_RegistryNamesRunningBrowsers ==
  (faults = 0 /\ \A t \in Tasks : Settled(t))
  => \A o \in OSProcs, p \in Profiles :
       /\ runningBrowsers[o][p] # NoEntry
            => runningBrowsers[o][p].process \in alive
       /\ bpRunning[o][p] # NoHandle => bpRunning[o][p].pid \in alive

\* C36 When the rollback after the last handshake attempt or the last endpoint
\* query cannot terminate the browser (kill() rejects), the step that fails the
\* launch still leaves the proxy lease of the call released.
C36_LeaseReleasedThoughKillFails ==
  [][\A t \in Tasks :
       ( /\ HandshakeGivesUp(t) \/ DiscoveryGivesUp(t)
         /\ tk'[t].killRejected
         /\ tk[t].proxyUrl # 0 )
       => ~leases'[tk[t].proxyUrl].open
    ]_vars

\* C37 Once a launch has configured its browser, the timezone it sent in
\* Emulation.setTimezoneOverride is the timezone it resolved and gave the
\* browser process in TZ.
C37_OverrideIsResolvedTimezone ==
  tzRun.pc = "configured" => tzRun.override = tzRun.TZ

\* C38 When two launchChrome calls of one OS process for the same profile have
\* both returned, however their steps interleaved, and nothing has failed, a
\* browser process either of them spawned is in the session registry of the
\* process, and closeAllBrowsers, called then, terminates it.
C38_OverlappingLaunchesTracked ==
  [][( /\ \A t \in Overlapping : tk[t].op = "launchChrome" /\ tk[t].pc = "done"
       /\ tk[1].profile = tk[3].profile
       /\ faults = 0 )
     => \A t \in Overlapping :
          (tk[t].chrome # 0 /\ tk[t].chrome \in alive)
          => /\ runningBrowsers["A"][tk[t].profile].process = tk[t].chrome
             /\ (tk'[1].op = "closeAllBrowsers" /\ faults' = 0)
                  => tk[t].chrome \notin alive'
    ]_vars

\* C39 The step in which withPuppeteer fails after its launch has returned (the
\* second connect rejects, or the page cannot be made ready) leaves the browser
\* the call launched terminated and the proxy lease of that launch released.
C39_FailureLeavesNothingRunning ==
  [][\A t \in Tasks :
       ( /\ tk[t].wrap /\ tk[t].pc \in {"connect", "page"}
         /\ tk'[t].pc = "failed"
         /\ tk[t].res.kind = "launch" )
       => /\ tk[t].res.pid \notin alive'
          /\ tk[t].res.proxyUrl # 0 => ~leases'[tk[t].res.proxyUrl].open
    ]_vars

====
